---- MODULE Spec2Model ----
(***************************************************************************)
(* Download orchestration of the Telegram downloader bot:                  *)
(* DownloaderService.handleQualitySelection / processDownload,             *)
(* VideoSessionService, YtdlpService.getBestFormats, and the Admission     *)
(* Queue and Result Cache they call.                                       *)
(* Every await of the handlers is a step boundary: the code between two    *)
(* awaits runs atomically on the single JavaScript thread.                 *)
(***************************************************************************)
EXTENDS Integers, Sequences, FiniteSets, TLC

\* ---------------------------------------------------------------- bounds
NReq == 3              \* quality-selection callbacks submitted to the queue
NPipe == 2             \* quality-selection callbacks followed end to end
MaxParallelCfg == 2    \* largest configured MAX_PARALLEL_DOWNLOADS explored
MaxQueuedCfg == 2      \* largest configured MAX_QUEUE_SIZE explored
MaxTime == 8           \* days of wall-clock time explored
MaxFormats == 2        \* longest data.formats array given to getBestFormats

\* ---------------------------------------------------- program constants
SessionTtlDays == 7    \* expiresAt.setDate(expiresAt.getDate() + 7)

Reqs == 1..(IF NReq > NPipe THEN NReq ELSE NPipe)
PipeReqs == 1..NPipe
QueueReqs == 1..NReq
Videos == {"v1"}
SIDs == {"s0", "s1"}      \* "s0": saved by an earlier run; "s1": a fresh id
None == "none"

\* The candidates of a ladder: callback data is `dl|sid|formatId|resolution`,
\* built by handleUrl from one FormatDto, so formatId and resolution travel
\* together.
Ladder ==
  << [formatId |-> "22", resolution |-> "720p"],
     [formatId |-> "18", resolution |-> "360p"],
     [formatId |-> "140", resolution |-> "audio"] >>
Formats == { Ladder[i] : i \in DOMAIN Ladder }
NoFormat == [formatId |-> None, resolution |-> None]

\* sanitizeFilename(videoData.title): a title belongs to the upload, not to
\* its id; "v1" and "v2" carry the same title, "v3" another one.
Title(v) == IF v = "v3" THEN "talk" ELSE "clip"

VARIABLES
  now,              \* new Date(), in days
  dbSessions,       \* prisma.videoSession: sid -> [video, expiresAt]
  presented,        \* history: sid -> [video, expiresAt] of every keyboard sent
  videoDataCache,   \* DownloaderService.videoDataCache: sid -> video
  cacheEntries,     \* Result Cache rows: [fp, fileId, hitCount, base]
  activeDownloads,  \* keys of DownloaderService.activeDownloads
  maxParallel,      \* MAX_PARALLEL_DOWNLOADS
  maxQueued,        \* MAX_QUEUE_SIZE
  running,          \* Admission Queue: tasks holding a slot
  waiting,          \* Admission Queue: FIFO of waiting tasks
  disk,             \* files present in downloadsDir
  req,              \* per callback: position and locals of the handler
  infoProcs,        \* handleUrl calls whose `yt-dlp --dump-single-json` runs
  rawFormats,       \* data.formats of a metadata dump
  ladder,           \* getBestFormats(data.formats), once computed
  lastSave,         \* history: the latest VideoSessionService.save call
  swept,            \* history: the latest VideoSessionService.cleanExpired call
  lastDelete,       \* history: the latest VideoSessionService.delete call
  keyboard,         \* handleUrl: the buttons offered for the ladder
  progress          \* downloadVideo: the stdout chunks read and lastProgress

tailVars == << lastDelete, keyboard, progress >>

\* State that no step of handleQualitySelection or processDownload touches.
sideVars ==
  << infoProcs, rawFormats, ladder, lastSave, swept, lastDelete, keyboard,
     progress >>

vars ==
  << now, dbSessions, presented, videoDataCache, cacheEntries,
     activeDownloads, maxParallel, maxQueued, running, waiting, disk, req,
     infoProcs, rawFormats, ladder, lastSave, swept, lastDelete, keyboard,
     progress >>

\* ------------------------------------------------------- derived values
\* Faulty variant, kept to show the property below can fail: the dedup key
\* carries the id of the user.
DownloadKey_PerUser(q) == << q.video, q.fmt.formatId, q.user >>

\* const downloadKey = `${videoData.id}|${formatId}`
DownloadKey(q) == << q.video, q.fmt.formatId >>

\* cacheService.get(videoData.id, formatId, resolution)
Fingerprint(q) == << q.video, q.fmt.formatId, q.fmt.resolution >>

\* const filename = `${sanitizedTitle}_${formatId}.${fileExt}`
FilePath(q) ==
  << Title(q.video), q.fmt.formatId,
     IF q.fmt.resolution = "audio" THEN "m4a" ELSE "mp4" >>

NoFile == << >>

\* getBestFormats has not run yet.
NotResolved ==
  << [formatId |-> 0, ext |-> None, resolution |-> << "pending" >>,
      filesize |-> 0,
      quality |-> 0, hasAudio |-> FALSE, vcodec |-> << >>] >>

\* No delete call has been made yet.
NoDelete == [sid |-> None, absent |-> FALSE, threw |-> FALSE]

\* handleUrl has not come to its keyboard yet.
NotPresented == [offered |-> << >>, shown |-> FALSE, tooLow |-> FALSE]

\* downloadVideo has spawned yt-dlp and read nothing: `let lastProgress = 0`.
NoProgress == [lastProgress |-> 0, log |-> << >>]

\* No save call has been made yet.
NoSave == [seq |-> 0, sid |-> None, video |-> None, threw |-> FALSE]

IdleReq ==
  [ pc |-> "idle", sid |-> None, fmt |-> NoFormat, video |-> None,
    cached |-> NoFile, fileId |-> NoFile, reply |-> None, end |-> None,
    \* history of the callback, read by the properties only
    gotExpired |-> FALSE, priorDelivered |-> FALSE, priorCached |-> FALSE,
    hitDelivered |-> FALSE, hitError |-> FALSE, deliveries |-> 0,
    fetches |-> 0, waitNo |-> 0, admitNo |-> 0,
    viaStore |-> FALSE, hits |-> 0, cacheWriteFailed |-> FALSE,
    user |-> 0, wrote |-> FALSE, delivAttempts |-> 0 ]

\* A fresh deployment: empty tables, empty maps, an idle queue.  The two queue
\* limits are configuration, read once at construction.
InitBase(mp, mq, sessions) ==
  /\ now = 0
  /\ dbSessions = sessions
  /\ presented = sessions
  /\ videoDataCache = << >>
  /\ activeDownloads = {}
  /\ maxParallel = mp
  /\ maxQueued = mq
  /\ running = {}
  /\ waiting = << >>
  /\ disk = {}
  /\ req = [r \in Reqs |-> IdleReq]
  /\ infoProcs = {}
  /\ ladder = NotResolved
  /\ lastSave = NoSave
  /\ lastDelete = NoDelete
  /\ keyboard = NotPresented
  /\ progress = NoProgress
  /\ swept = [seq |-> 0, count |-> 0]

InitWith(mp, mq, sessions) ==
  /\ InitBase(mp, mq, sessions)
  /\ cacheEntries = {}
  /\ rawFormats = << >>

\* A queue that holds no waiting task (MAX_QUEUE_SIZE = 0).
Init == \E mp \in 1..MaxParallelCfg : InitWith(mp, 0, << >>)

InitQueue ==
  \E mp \in 1..MaxParallelCfg, mq \in 0..MaxQueuedCfg : InitWith(mp, mq, << >>)

\* A restarted process: the session table still holds a session saved by the
\* earlier run, one day from its expiry; every in-process map is empty.
InitRestarted ==
  InitWith(1, 0, [s \in {"s0"} |-> [video |-> "v1", expiresAt |-> 1]])

Without(f, k) == [x \in DOMAIN f \ {k} |-> f[x]]

\* The rows of the Result Cache that carry a fingerprint.
EntriesOf(fp) == { e \in cacheEntries : e.fp = fp }
CachedFps == { e.fp : e \in cacheEntries }

\* Fingerprints some callback has already been served successfully.
DeliveredFps ==
  { Fingerprint(req[x]) :
      x \in { y \in Reqs : /\ req[y].pc = "done"
                           /\ req[y].end \in {"delivered", "cache_delivered"} } }

\* Time passes between any two steps, by a day or by a whole session lifetime.
Tick ==
  /\ \E d \in {1, SessionTtlDays} :
       /\ now + d <= MaxTime
       /\ now' = now + d
  /\ UNCHANGED << sideVars, dbSessions, presented, videoDataCache,
                  cacheEntries, activeDownloads, maxParallel, maxQueued,
                  running, waiting, disk, req >>

\* ------------------------------------------- YtdlpService.getBestFormats
\* Codec tags are strings, kept as sequences of characters so that
\* toLowerCase and includes are computed.  An absent or empty tag is << >>.
NoneTag == << "n", "o", "n", "e" >>
Avc1Tag == << "a", "v", "c", "1" >>
VCodecs ==
  { Avc1Tag, << "A", "V", "C", "1" >>, << "h", "2", "6", "4" >>,
    << "v", "p", "9" >> }
Mp4aTag == << "m", "p", "4", "a" >>
Heights == {100, 144, 720, 2160}
Sizes == {0, 1000, 2000}

\* The records yt-dlp may list, without their format_id: video-only streams,
\* audio-only streams, a muxed stream, and a record that names no codec.
\* filesize is `f.filesize || f.filesize_approx || 0`.
RawBodies ==
  [vcodec : VCodecs, acodec : {NoneTag}, height : Heights, filesize : Sizes]
    \cup [vcodec : {NoneTag}, acodec : {Mp4aTag}, height : {0},
          filesize : Sizes]
    \cup [vcodec : {Avc1Tag}, acodec : {Mp4aTag}, height : {144},
          filesize : {1000}]
    \cup [vcodec : {<< >>}, acodec : {<< >>}, height : {0}, filesize : {0}]

LowerChar(c) ==
  CASE c = "A" -> "a" [] c = "V" -> "v" [] c = "C" -> "c" [] c = "H" -> "h"
    [] c = "P" -> "p" [] OTHER -> c

ToLowerCase(str) == [i \in DOMAIN str |-> LowerChar(str[i])]

Includes(str, sub) ==
  \E i \in 0..(Len(str) - Len(sub)) : SubSeq(str, i + 1, i + Len(sub)) = sub

\* const hasVideo = f.vcodec && f.vcodec !== 'none'
HasVideo(f) == f.vcodec # << >> /\ f.vcodec # NoneTag
HasAudio(f) == f.acodec # << >> /\ f.acodec # NoneTag

\* f.vcodec?.toLowerCase().includes('avc1') || ...includes('h264')
IsH264(f) ==
  \/ Includes(ToLowerCase(f.vcodec), << "a", "v", "c", "1" >>)
  \/ Includes(ToLowerCase(f.vcodec), << "h", "2", "6", "4" >>)

\* Resolutions are strings too: `${height}p` for a video, 'audio' otherwise.
DigitChars == << "0", "1", "2", "3", "4", "5", "6", "7", "8", "9" >>

RECURSIVE Digits(_)
Digits(n) ==
  IF n < 10 THEN << DigitChars[n + 1] >>
  ELSE Digits(n \div 10) \o << DigitChars[(n % 10) + 1] >>

ResolutionOf(height) == Digits(height) \o << "p" >>
AudioRes == << "a", "u", "d", "i", "o" >>

\* parseInt(str, 10): the number its leading digits spell, NaN without any.
NaN == -1
IsNaN(x) == x = NaN
IsDigit(c) == \E i \in DOMAIN DigitChars : DigitChars[i] = c
DigitValue(c) == (CHOOSE i \in DOMAIN DigitChars : DigitChars[i] = c) - 1

RECURSIVE ParseFrom(_, _, _)
ParseFrom(str, i, acc) ==
  IF i > Len(str) \/ ~ IsDigit(str[i]) THEN acc
  ELSE ParseFrom(str, i + 1,
                 (IF IsNaN(acc) THEN 0 ELSE acc * 10) + DigitValue(str[i]))

ParseInt(str) == ParseFrom(str, 1, NaN)

AudioDto(f) ==
  [formatId |-> f.format_id, ext |-> "m4a", resolution |-> AudioRes,
   filesize |-> f.filesize, quality |-> 0, hasAudio |-> TRUE,
   vcodec |-> << >>]

VideoDto(f) ==
  [formatId |-> f.format_id, ext |-> "mp4",
   resolution |-> ResolutionOf(f.height), filesize |-> f.filesize,
   quality |-> f.height, hasAudio |-> HasAudio(f), vcodec |-> f.vcodec]

\* videoFormats is a Map keyed by height; its values() come in the order in
\* which the keys were first set.
MapHas(m, h) == \E i \in DOMAIN m : m[i].quality = h
MapGet(m, h) == m[CHOOSE i \in DOMAIN m : m[i].quality = h]
MapSet(m, h, d) ==
  IF MapHas(m, h)
  THEN [i \in DOMAIN m |-> IF m[i].quality = h THEN d ELSE m[i]]
  ELSE Append(m, d)

\* Faulty variant, kept to show the property below can fail: the H.264
\* preference is left out.
Takes_SizeOnly(f, m) ==
  /\ f.filesize > 0
  /\ \/ ~ MapHas(m, f.height)
     \/ f.filesize > MapGet(m, f.height).filesize

\* size > 0 && (!existing || size > existing.filesize ||
\*              (isH264 && !existing.vcodec?.includes('avc')))
Takes(f, m) ==
  /\ f.filesize > 0
  /\ \/ ~ MapHas(m, f.height)
     \/ f.filesize > MapGet(m, f.height).filesize
     \/ /\ IsH264(f)
        /\ ~ Includes(MapGet(m, f.height).vcodec, << "a", "v", "c" >>)

\* The body of formats.forEach for one record; acc holds the two collections.
ForEachStep(acc, f) ==
  IF ~ HasVideo(f) /\ HasAudio(f)
  THEN [acc EXCEPT !.audio = Append(@, AudioDto(f))]
  ELSE IF HasVideo(f) /\ f.height >= 144 /\ Takes(f, acc.video)
  THEN [acc EXCEPT !.video = MapSet(@, f.height, VideoDto(f))]
  ELSE acc

RECURSIVE ForEach(_, _, _)
ForEach(formats, i, acc) ==
  IF i > Len(formats) THEN acc
  ELSE ForEach(formats, i + 1, ForEachStep(acc, formats[i]))

SortKey(d, by) ==
  IF by = "quality" THEN d.quality
  ELSE IF by = "filesize" THEN d.filesize
  ELSE IF IsNaN(ParseInt(d.resolution)) THEN 0 ELSE ParseInt(d.resolution)

\* Array.prototype.sort((a, b) => b[by] - a[by]): descending and stable.
RECURSIVE InsertDesc(_, _, _)
InsertDesc(sorted, d, by) ==
  IF sorted = << >> THEN << d >>
  ELSE IF SortKey(Head(sorted), by) >= SortKey(d, by)
  THEN << Head(sorted) >> \o InsertDesc(Tail(sorted), d, by)
  ELSE << d >> \o sorted

RECURSIVE SortFrom(_, _, _, _)
SortFrom(arr, i, sorted, by) ==
  IF i > Len(arr) THEN sorted
  ELSE SortFrom(arr, i + 1, InsertDesc(sorted, arr[i], by), by)

\* Faulty variant, kept to show the property below can fail: no sorting.
SortDesc_Unsorted(arr, by) == arr

SortDesc(arr, by) == SortFrom(arr, 1, << >>, by)

GetBestFormats(formats) ==
  LET acc == ForEach(formats, 1, [video |-> << >>, audio |-> << >>])
      sortedVideos == SortDesc(acc.video, "quality")
      sortedAudio == SortDesc(acc.audio, "filesize")
  IN  IF sortedAudio # << >>
      THEN Append(sortedVideos, sortedAudio[1])
      ELSE sortedVideos

\* yt-dlp has printed its JSON: data.formats is any short list of records,
\* the i-th carrying format_id i.
WithFormatId(b, i) ==
  [format_id |-> i, vcodec |-> b.vcodec, acodec |-> b.acodec,
   height |-> b.height, filesize |-> b.filesize]

InitResolver ==
  /\ InitBase(1, 0, << >>)
  /\ cacheEntries = {}
  /\ \E n \in 0..MaxFormats :
       \E b \in [1..n -> RawBodies] :
         rawFormats = [i \in 1..n |-> WithFormatId(b[i], i)]

\* getVideoInfo: formats: this.getBestFormats(data.formats || [])
ResolveFormats ==
  /\ ladder = NotResolved
  /\ ladder' = GetBestFormats(rawFormats)
  /\ UNCHANGED << now, dbSessions, presented, videoDataCache, cacheEntries,
                  activeDownloads, maxParallel, maxQueued, running, waiting,
                  disk, req, infoProcs, rawFormats, lastSave, swept,
                  tailVars >>

\* handleUrl, after the session is saved: the buttons of the keyboard.
MIN_RESOLUTION == 360
MAX_RESOLUTION == 1080

\* The filter of videoFormats.
IsOfferedVideo(d) ==
  /\ d.resolution # AudioRes
  /\ ~ IsNaN(ParseInt(d.resolution))
  /\ ParseInt(d.resolution) >= MIN_RESOLUTION
  /\ ParseInt(d.resolution) <= MAX_RESOLUTION

IsAudioDto(d) == d.resolution = AudioRes

\* visibleFormats = [...videoFormats sorted by height, audioFormat?]
VisibleFormats(allFormats) ==
  LET videoFormats == SortDesc(SelectSeq(allFormats, IsOfferedVideo), "parsed")
      audios == SelectSeq(allFormats, IsAudioDto)
  IN  IF audios # << >> THEN Append(videoFormats, audios[1])
      ELSE videoFormats

\* key = `${sessionId}|${format.formatId}|${format.resolution}`
ButtonOf(d) == [formatId |-> d.formatId, resolution |-> d.resolution]

\* An empty visibleFormats is answered with 'qualities too low or absent';
\* otherwise one button per visible format is sent.
PresentFormats ==
  /\ ladder # NotResolved
  /\ keyboard = NotPresented
  /\ LET visible == VisibleFormats(ladder) IN
     keyboard' =
       IF visible = << >>
       THEN [offered |-> << >>, shown |-> FALSE, tooLow |-> TRUE]
       ELSE [offered |-> [i \in DOMAIN visible |-> ButtonOf(visible[i])],
             shown |-> TRUE, tooLow |-> FALSE]
  /\ UNCHANGED << now, dbSessions, presented, videoDataCache, cacheEntries,
                  activeDownloads, maxParallel, maxQueued, running, waiting,
                  disk, req, infoProcs, rawFormats, ladder, lastSave, swept,
                  lastDelete, progress >>

NextResolver ==
  \/ ResolveFormats
  \/ PresentFormats

ResolverSpec == InitResolver /\ [][NextResolver]_vars

\* ------------------------------------------------- VideoSessionService
\* save(videoId, videoInfo): prisma.videoSession.create with
\* expiresAt = now + 7 days.  create inserts a new row; for an id the table
\* already holds, it raises the unique-constraint error, which save logs and
\* rethrows, and the row stays as it was.
SaveRow(sid, v) ==
  IF sid \in DOMAIN dbSessions
  THEN [threw |-> TRUE, rows |-> dbSessions]
  ELSE [threw |-> FALSE,
        rows |-> dbSessions @@
                   (sid :> [video |-> v, expiresAt |-> now + SessionTtlDays])]

\* A direct call of VideoSessionService.save.
SessionSave(sid, v) ==
  /\ dbSessions' = SaveRow(sid, v).rows
  /\ lastSave' = [seq |-> 1 - lastSave.seq, sid |-> sid, video |-> v,
                  threw |-> SaveRow(sid, v).threw]
  /\ UNCHANGED << now, presented, videoDataCache, cacheEntries,
                  activeDownloads, maxParallel, maxQueued, running, waiting,
                  disk, req, infoProcs, rawFormats, ladder, swept,
                  tailVars >>

\* Faulty variant, kept to show the property below can fail: the 'record not
\* found' error of a delete that meets no row is rethrown.
DeleteRow_Strict(rows, sid) ==
  IF sid \in DOMAIN rows
  THEN [threw |-> FALSE, rows |-> Without(rows, sid)]
  ELSE [threw |-> TRUE, rows |-> rows]

\* delete(videoId): prisma.videoSession.delete removes the row; when there
\* is none it raises 'record not found' (P2025), which the catch ignores, and
\* every other error is logged there: delete never throws.
DeleteRow(rows, sid) ==
  IF sid \in DOMAIN rows
  THEN [threw |-> FALSE, rows |-> Without(rows, sid)]
  ELSE [threw |-> FALSE, rows |-> rows]

DeleteCall(sid) ==
  [sid |-> sid, absent |-> sid \notin DOMAIN dbSessions,
   threw |-> DeleteRow(dbSessions, sid).threw]

\* A direct call of VideoSessionService.delete.
SessionDelete(sid) ==
  /\ dbSessions' = DeleteRow(dbSessions, sid).rows
  /\ lastDelete' = DeleteCall(sid)
  /\ UNCHANGED << now, presented, videoDataCache, cacheEntries,
                  activeDownloads, maxParallel, maxQueued, running, waiting,
                  disk, req, infoProcs, rawFormats, ladder, lastSave, swept,
                  keyboard, progress >>

\* Faulty variant, kept to show the property below can fail: lte for lt.
ExpiredRows_Inclusive ==
  { s \in DOMAIN dbSessions : dbSessions[s].expiresAt <= now }

\* The rows deleteMany({ where: { expiresAt: { lt: new Date() } } }) removes.
ExpiredRows == { s \in DOMAIN dbSessions : dbSessions[s].expiresAt < now }

\* cleanExpired(): one deleteMany statement; returns result.count.
CleanExpired ==
  /\ dbSessions' = [s \in DOMAIN dbSessions \ ExpiredRows |-> dbSessions[s]]
  /\ swept' = [seq |-> 1 - swept.seq, count |-> Cardinality(ExpiredRows)]
  /\ UNCHANGED << now, presented, videoDataCache, cacheEntries,
                  activeDownloads, maxParallel, maxQueued, running, waiting,
                  disk, req, infoProcs, rawFormats, ladder, lastSave,
                  tailVars >>

\* ------------------------------------------------------------ handleUrl
\* `await ctx.reply('analysing')`, then ytdlpService.getVideoInfo(url) starts
\* `yt-dlp --dump-single-json` through exec; handleUrl calls it directly.
\* The call is named by the session id it will draw.
HU_Spawn(sid) ==
  /\ sid \notin infoProcs
  /\ sid \notin DOMAIN presented
  /\ infoProcs' = infoProcs \cup {sid}
  /\ UNCHANGED << now, dbSessions, presented, videoDataCache, cacheEntries,
                  activeDownloads, maxParallel, maxQueued, running, waiting,
                  disk, req, rawFormats, ladder, lastSave, swept,
                  tailVars >>

\* The dump fails (non-zero exit, unparsable output): getVideoInfo throws and
\* handleUrl's catch reports that the link could not be analysed.
HU_Fail(sid) ==
  /\ sid \in infoProcs
  /\ infoProcs' = infoProcs \ {sid}
  /\ UNCHANGED << now, dbSessions, presented, videoDataCache, cacheEntries,
                  activeDownloads, maxParallel, maxQueued, running, waiting,
                  disk, req, rawFormats, ladder, lastSave, swept,
                  tailVars >>

\* The dump returns: sessionId = crypto.randomBytes(8); videoDataCache.set;
\* videoSessionService.save; the keyboard is sent unless save threw.
HandleUrl(sid, v) ==
  /\ sid \in infoProcs
  /\ sid \notin DOMAIN presented
  /\ infoProcs' = infoProcs \ {sid}
  /\ videoDataCache' =
       [s \in DOMAIN videoDataCache \cup {sid} |->
          IF s = sid THEN v ELSE videoDataCache[s]]
  /\ dbSessions' = SaveRow(sid, v).rows
  /\ lastSave' = [seq |-> 1 - lastSave.seq, sid |-> sid, video |-> v,
                  threw |-> SaveRow(sid, v).threw]
  /\ presented' =
       IF SaveRow(sid, v).threw THEN presented
       ELSE presented @@
              (sid :> [video |-> v, expiresAt |-> now + SessionTtlDays])
  /\ UNCHANGED << now, cacheEntries, activeDownloads, maxParallel, maxQueued,
                  running, waiting, disk, req, rawFormats, ladder, swept,
                  tailVars >>

\* ------------------------------------------------ handleQualitySelection
\* const userId = BigInt(ctx.from.id): every callback comes from a user of
\* its own.
UserOf(r) == r
Users == Reqs

\* The callback arrives: videoDataCache.get(videoId), and on a miss the
\* awaited videoSessionService.get(videoId).
QS_Start(r, sid, f) ==
  /\ req[r].pc = "idle"
  \* callbacks are numbered in their order of arrival
  /\ \A x \in Reqs : x < r => req[x].pc # "idle"
  /\ sid \in DOMAIN presented
  /\ LET q0 == [req[r] EXCEPT !.sid = sid, !.fmt = f, !.user = UserOf(r),
                              !.video = presented[sid].video]
         q1 == [q0 EXCEPT
                  !.priorDelivered = Fingerprint(q0) \in DeliveredFps,
                  !.priorCached = Fingerprint(q0) \in CachedFps]
     IN  req' = [req EXCEPT ![r] =
                   IF sid \in DOMAIN videoDataCache
                   THEN [q1 EXCEPT !.pc = "cacheGet",
                                   !.video = videoDataCache[sid],
                                   !.gotExpired = now > presented[sid].expiresAt]
                   ELSE [q1 EXCEPT !.pc = "sessFind"]]
  /\ UNCHANGED << sideVars, now, dbSessions, presented, videoDataCache, cacheEntries,
                  activeDownloads, maxParallel, maxQueued, running, waiting,
                  disk >>

\* Faulty variant, kept to show the property below can fail: the metadata read
\* from the table is not put into videoDataCache.
SessGet_NoWriteThrough(r) ==
  /\ req[r].pc = "sessFind"
  /\ LET sid == req[r].sid IN
     IF sid \notin DOMAIN dbSessions
     THEN req' = [req EXCEPT ![r] = [@ EXCEPT !.pc = "done",
                                              !.reply = "expired",
                                              !.end = "expired"]]
     ELSE IF now > dbSessions[sid].expiresAt
     THEN req' = [req EXCEPT ![r] = [@ EXCEPT !.pc = "sessDelete"]]
     ELSE req' = [req EXCEPT ![r] =
                    [@ EXCEPT !.pc = "cacheGet",
                              !.video = dbSessions[sid].video,
                              !.viaStore = TRUE]]
  /\ UNCHANGED << sideVars, now, dbSessions, presented, videoDataCache,
                  cacheEntries, activeDownloads, maxParallel, maxQueued,
                  running, waiting, disk >>

\* VideoSessionService.get: findUnique, then the expiry test.
SessGet(r) ==
  /\ req[r].pc = "sessFind"
  /\ LET sid == req[r].sid IN
     IF sid \notin DOMAIN dbSessions
     THEN /\ req' = [req EXCEPT ![r] = [@ EXCEPT !.pc = "done",
                                                 !.reply = "expired",
                                                 !.end = "expired"]]
          /\ UNCHANGED videoDataCache
     ELSE IF now > dbSessions[sid].expiresAt
     THEN /\ req' = [req EXCEPT ![r] = [@ EXCEPT !.pc = "sessDelete"]]
          /\ UNCHANGED videoDataCache
     ELSE /\ req' = [req EXCEPT ![r] =
                       [@ EXCEPT !.pc = "cacheGet",
                                 !.video = dbSessions[sid].video,
                                 !.viaStore = TRUE,
                                 !.gotExpired = now > dbSessions[sid].expiresAt]]
          /\ videoDataCache' =
               [s \in DOMAIN videoDataCache \cup {sid} |->
                  IF s = sid THEN dbSessions[sid].video ELSE videoDataCache[s]]
  /\ UNCHANGED << sideVars, now, dbSessions, presented, cacheEntries, activeDownloads,
                  maxParallel, maxQueued, running, waiting, disk >>

\* VideoSessionService.delete inside get, then `return null` and the
\* 'link expired' answer of handleQualitySelection.
SessDelete(r) ==
  /\ req[r].pc = "sessDelete"
  /\ dbSessions' = DeleteRow(dbSessions, req[r].sid).rows
  /\ lastDelete' = DeleteCall(req[r].sid)
  /\ req' = [req EXCEPT ![r] = [@ EXCEPT !.pc = "done", !.reply = "expired",
                                         !.end = "expired"]]
  /\ UNCHANGED << now, presented, videoDataCache, cacheEntries,
                  activeDownloads, maxParallel, maxQueued, running, waiting,
                  disk, infoProcs, rawFormats, ladder, lastSave, swept,
                  keyboard, progress >>

\* The dedup test `this.activeDownloads.has(downloadKey)` and what follows it
\* up to the next await, for a callback whose record is q.
DedupCheck(q) ==
  IF DownloadKey(q) \in activeDownloads
  THEN [q EXCEPT !.pc = "done", !.reply = "already", !.end = "duplicate"]
  ELSE [q EXCEPT !.pc = "ansQueued"]

\* cacheService.get(videoData.id, formatId, resolution): the row as the
\* store holds it when the query runs.
CacheLookup(q) ==
  IF EntriesOf(Fingerprint(q)) # {}
  THEN (CHOOSE e \in EntriesOf(Fingerprint(q)) : TRUE).fileId
  ELSE NoFile

CacheGet(r) ==
  /\ req[r].pc = "cacheGet"
  /\ req' = [req EXCEPT ![r] = [@ EXCEPT !.pc = "afterCache",
                                         !.cached = CacheLookup(req[r])]]
  /\ UNCHANGED << sideVars, now, dbSessions, presented, videoDataCache, cacheEntries,
                  activeDownloads, maxParallel, maxQueued, running, waiting,
                  disk >>

\* Faulty variant, kept to show the property below can fail: the cached row is ignored and the handler goes on to the dedup test.
AfterCache_IgnoreHit(r) ==
  /\ req[r].pc = "afterCache"
  /\ req' = [req EXCEPT ![r] = DedupCheck(@)]
  /\ UNCHANGED << sideVars, now, dbSessions, presented, videoDataCache, cacheEntries,
                  activeDownloads, maxParallel, maxQueued, running, waiting,
                  disk >>

\* `if (cached) { answerCallbackQuery(FROM_CACHE) ... }`, else the dedup test.
AfterCache(r) ==
  /\ req[r].pc = "afterCache"
  /\ req' = [req EXCEPT ![r] =
               IF req[r].cached # NoFile
               THEN [@ EXCEPT !.pc = "hitDeliver", !.reply = "from_cache"]
               ELSE DedupCheck(@)]
  /\ UNCHANGED << sideVars, now, dbSessions, presented, videoDataCache, cacheEntries,
                  activeDownloads, maxParallel, maxQueued, running, waiting,
                  disk >>

\* Faulty variant, kept to show the property below can fail: a rejected
\* cached reference ends the request with an error.
HitDeliver_FailRequest(r, ok) ==
  /\ req[r].pc = "hitDeliver"
  /\ req' = [req EXCEPT ![r] =
               IF ok
               THEN [@ EXCEPT !.pc = "hitRecord", !.hitDelivered = TRUE,
                              !.deliveries = @ + 1]
               ELSE [@ EXCEPT !.pc = "done", !.hitError = TRUE,
                              !.reply = "error", !.end = "hit_failed"]]
  /\ UNCHANGED << sideVars, now, dbSessions, presented, videoDataCache,
                  cacheEntries, activeDownloads, maxParallel, maxQueued,
                  running, waiting, disk >>

\* ctx.replyWithAudio / replyWithVideo(cached.fileId): the Delivery Channel
\* accepts the reference or rejects it; a throw lands in `catch (e)` and the
\* handler goes on to the dedup test.
HitDeliver(r, ok) ==
  /\ req[r].pc = "hitDeliver"
  /\ req' = [req EXCEPT ![r] =
               IF ok
               THEN [@ EXCEPT !.pc = "hitRecord", !.hitDelivered = TRUE,
                              !.deliveries = @ + 1]
               ELSE DedupCheck([@ EXCEPT !.hitError = TRUE])]
  /\ UNCHANGED << sideVars, now, dbSessions, presented, videoDataCache, cacheEntries,
                  activeDownloads, maxParallel, maxQueued, running, waiting,
                  disk >>

\* Faulty variant, kept to show the property below can fail: the count is
\* written from a value read when the entry was created.
RecordCacheHit_LostUpdate(fp) ==
  { IF e.fp = fp THEN [e EXCEPT !.hitCount = e.base + 1] ELSE e :
      e \in cacheEntries }

\* cacheService.recordCacheHit(cached.id, userId), inside the same try block.
RecordCacheHit(fp) ==
  { IF e.fp = fp THEN [e EXCEPT !.hitCount = @ + 1] ELSE e :
      e \in cacheEntries }

HitRecord(r, ok) ==
  /\ req[r].pc = "hitRecord"
  /\ IF ok
     THEN /\ cacheEntries' = RecordCacheHit(Fingerprint(req[r]))
          /\ req' = [req EXCEPT ![r] = [@ EXCEPT !.pc = "hitBook",
                                                 !.hits = @ + 1]]
     ELSE /\ UNCHANGED cacheEntries
          /\ req' = [req EXCEPT ![r] = DedupCheck([@ EXCEPT !.hitError = TRUE])]
  /\ UNCHANGED << sideVars, now, dbSessions, presented, videoDataCache,
                  activeDownloads, maxParallel, maxQueued, running, waiting,
                  disk >>

\* userService.incrementDownloads, advertisementService.*, then `return`;
\* still inside the try block.
HitBook(r, ok) ==
  /\ req[r].pc = "hitBook"
  /\ req' = [req EXCEPT ![r] =
               IF ok
               THEN [@ EXCEPT !.pc = "done", !.end = "cache_delivered"]
               ELSE DedupCheck([@ EXCEPT !.hitError = TRUE])]
  /\ UNCHANGED << sideVars, now, dbSessions, presented, videoDataCache, cacheEntries,
                  activeDownloads, maxParallel, maxQueued, running, waiting,
                  disk >>

\* ------------------------------------------------------ Admission Queue
\* queueService.add / the queue's completion handling.
QueueHasSlot == Cardinality(running) < maxParallel

\* Faulty variant, kept to show the property below can fail: an off-by-one in the waiting-room test.
QueueHasRoom_OffByOne == Len(waiting) <= maxQueued

QueueHasRoom == Len(waiting) < maxQueued

\* add(task): start at once, enqueue FIFO, or fail with a capacity error.
QueueAdd(r) ==
  IF QueueHasSlot
  THEN [result |-> "start", running |-> running \cup {r}, waiting |-> waiting]
  ELSE IF QueueHasRoom
  THEN [result |-> "wait", running |-> running,
        waiting |-> Append(waiting, r)]
  ELSE [result |-> "reject", running |-> running, waiting |-> waiting]

\* Faulty variant, kept to show the property below can fail: the queue admits the task that was enqueued last.
QueueSettle_Lifo(r, ok) ==
  IF waiting # << >>
  THEN [admitted |-> {waiting[Len(waiting)]},
        running |-> (running \ {r}) \cup {waiting[Len(waiting)]},
        waiting |-> SubSeq(waiting, 1, Len(waiting) - 1)]
  ELSE [admitted |-> {}, running |-> running \ {r}, waiting |-> waiting]

\* Faulty variant, kept to show the property below can fail: a rejected task keeps its slot and admits nobody.
QueueSettle_LeakOnFailure(r, ok) ==
  IF ok /\ waiting # << >>
  THEN [admitted |-> {Head(waiting)},
        running |-> (running \ {r}) \cup {Head(waiting)},
        waiting |-> Tail(waiting)]
  ELSE IF ok
  THEN [admitted |-> {}, running |-> running \ {r}, waiting |-> waiting]
  ELSE [admitted |-> {}, running |-> running, waiting |-> waiting]

\* A running task r settles (ok: resolved, otherwise rejected): its slot is
\* freed and the head of the waiting list, if any, is admitted.
QueueSettle(r, ok) ==
  IF waiting # << >>
  THEN [admitted |-> {Head(waiting)},
        running |-> (running \ {r}) \cup {Head(waiting)},
        waiting |-> Tail(waiting)]
  ELSE [admitted |-> {}, running |-> running \ {r}, waiting |-> waiting]

\* Faulty variant, kept to show the property below can fail: processDownload is started directly, not through queueService.add.
Enqueue_Bypass(r) ==
  /\ req[r].pc = "ansQueued"
  /\ activeDownloads' = activeDownloads \cup {DownloadKey(req[r])}
  /\ req' = [req EXCEPT ![r] = [@ EXCEPT !.pc = "pdStart", !.reply = "queued"]]
  /\ UNCHANGED << sideVars, now, dbSessions, presented, videoDataCache, cacheEntries,
                  maxParallel, maxQueued, running, waiting, disk >>

\* After `await ctx.answerCallbackQuery('added to the queue')`:
\* queueService.add(() => processDownload(...)), activeDownloads.set, and
\* downloadPromise.finally(() => activeDownloads.delete(downloadKey)).
\* A capacity error rejects downloadPromise: the finally callback removes
\* the key just set, and nothing else observes the rejection.
Enqueue(r) ==
  /\ req[r].pc = "ansQueued"
  /\ LET a == QueueAdd(r)
         k == DownloadKey(req[r])
     IN  /\ running' = a.running
         /\ waiting' = a.waiting
         /\ activeDownloads' =
              IF a.result = "reject" THEN activeDownloads \ {k}
              ELSE activeDownloads \cup {k}
         /\ req' = [req EXCEPT ![r] =
                      IF a.result = "start"
                      THEN [@ EXCEPT !.pc = "pdStart", !.reply = "queued"]
                      ELSE IF a.result = "wait"
                      THEN [@ EXCEPT !.pc = "waiting", !.reply = "queued",
                                     !.waitNo = 1 + Cardinality(
                                        {x \in Reqs : req[x].waitNo > 0})]
                      ELSE [@ EXCEPT !.pc = "done", !.reply = "queued",
                                     !.end = "rejected"]]
  /\ UNCHANGED << sideVars, now, dbSessions, presented, videoDataCache, cacheEntries,
                  maxParallel, maxQueued, disk >>

\* Faulty variant, kept to show the property below can fail: the settled
\* task leaves its dedup key in the map.
Finish_KeepsKey(r, q, ok) ==
  LET s == QueueSettle(r, ok) IN
  /\ running' = s.running
  /\ waiting' = s.waiting
  /\ activeDownloads' = activeDownloads
  /\ req' = [x \in Reqs |->
               IF x = r THEN [q EXCEPT !.pc = "done"]
               ELSE IF x \in s.admitted
               THEN [req[x] EXCEPT !.pc = "pdStart",
                                   !.admitNo = 1 + Cardinality(
                                      {y \in Reqs : req[y].admitNo > 0})]
               ELSE req[x]]

\* -------------------------------------------------------- processDownload
\* The task's promise settles: processDownload catches every error, so it
\* always resolves.  The queue frees the slot and admits the next waiting
\* task, and the finally callback deletes the task's dedup key.
\* q is the final record of callback r.
Finish(r, q, ok) ==
  LET s == QueueSettle(r, ok) IN
  /\ running' = s.running
  /\ waiting' = s.waiting
  /\ activeDownloads' = activeDownloads \ {DownloadKey(req[r])}
  /\ req' = [x \in Reqs |->
               IF x = r THEN [q EXCEPT !.pc = "done"]
               ELSE IF x \in s.admitted
               THEN [req[x] EXCEPT !.pc = "pdStart",
                                   !.admitNo = 1 + Cardinality(
                                      {y \in Reqs : req[y].admitNo > 0})]
               ELSE req[x]]

\* `await ctx.reply('starting')`, then ytdlpService.downloadVideo spawns yt-dlp.
PD_Spawn(r) ==
  /\ req[r].pc = "pdStart"
  /\ req' = [req EXCEPT ![r] = [@ EXCEPT !.pc = "fetching",
                                         !.reply = "starting",
                                         !.fetches = @ + 1]]
  /\ UNCHANGED << sideVars, now, dbSessions, presented, videoDataCache, cacheEntries,
                  activeDownloads, maxParallel, maxQueued, running, waiting,
                  disk >>

\* child.on('close'): exit code 0 leaves the artifact at filepath and the
\* handler announces the upload; any other exit (or 'error') rejects and
\* processDownload's catch reports the error.
FetchClose(r, ok) ==
  /\ req[r].pc = "fetching"
  /\ IF ok
     THEN /\ disk' = disk \cup {FilePath(req[r])}
          /\ req' = [req EXCEPT ![r] = [@ EXCEPT !.pc = "uploading",
                                                 !.reply = "uploading"]]
          /\ UNCHANGED << running, waiting, activeDownloads >>
     ELSE /\ UNCHANGED disk
          /\ Finish(r, [req[r] EXCEPT !.reply = "error",
                                      !.end = "fetch_failed"], FALSE)
  /\ UNCHANGED << sideVars, now, dbSessions, presented, videoDataCache, cacheEntries,
                  maxParallel, maxQueued >>

\* Faulty variant, kept to show the property below can fail: the cache row is
\* written before the upload has answered.
Upload_WritesFirst(r, ok) ==
  /\ req[r].pc = "uploading"
  /\ cacheEntries' = cacheEntries \cup
       { [fp |-> Fingerprint(req[r]), fileId |-> << r >>,
          hitCount |-> 0, base |-> 0] }
  /\ IF ok
     THEN /\ req' = [req EXCEPT ![r] = [@ EXCEPT !.pc = "cacheSet",
                                                 !.fileId = << r >>]]
          /\ UNCHANGED << running, waiting, activeDownloads >>
     ELSE Finish(r, [req[r] EXCEPT !.reply = "error",
                                   !.end = "upload_failed"], FALSE)
  /\ UNCHANGED << sideVars, now, dbSessions, presented, videoDataCache,
                  maxParallel, maxQueued, disk >>

\* uploaderService.cacheToChannel(filepath, videoData, isAudio)
Upload(r, ok) ==
  /\ req[r].pc = "uploading"
  /\ IF ok
     THEN /\ req' = [req EXCEPT ![r] = [@ EXCEPT !.pc = "cacheSet",
                                                 !.fileId = << r >>]]
          /\ UNCHANGED << running, waiting, activeDownloads >>
     ELSE Finish(r, [req[r] EXCEPT !.reply = "error",
                                   !.end = "upload_failed"], FALSE)
  /\ UNCHANGED << sideVars, now, dbSessions, presented, videoDataCache, cacheEntries,
                  maxParallel, maxQueued, disk >>

\* Faulty variant, kept to show the property below can fail: set inserts a
\* row whether or not the fingerprint has one.
CacheSetEntry_Insert(fp, fileId) ==
  cacheEntries \cup
    { [fp |-> fp, fileId |-> fileId, hitCount |-> 0, base |-> 0] }

\* cacheService.set(entry): the one row of the fingerprint now carries
\* fileId (overwrite); a row that existed keeps its hit count.
CacheSetEntry(fp, fileId) ==
  (cacheEntries \ EntriesOf(fp)) \cup
    { IF EntriesOf(fp) # {}
      THEN [(CHOOSE e \in EntriesOf(fp) : TRUE) EXCEPT !.fileId = fileId]
      ELSE [fp |-> fp, fileId |-> fileId, hitCount |-> 0, base |-> 0] }

\* Faulty variant, kept to show the property below can fail: a failed cache
\* write is not caught and ends the task in processDownload's catch block.
CacheSet_Fatal(r, ok) ==
  /\ req[r].pc = "cacheSet"
  /\ IF ok /\ FilePath(req[r]) \in disk
     THEN /\ cacheEntries' =
               CacheSetEntry(Fingerprint(req[r]), req[r].fileId)
          /\ req' = [req EXCEPT ![r] = [@ EXCEPT !.pc = "deliver"]]
          /\ UNCHANGED << running, waiting, activeDownloads >>
     ELSE /\ UNCHANGED cacheEntries
          /\ Finish(r, [req[r] EXCEPT !.reply = "error",
                                      !.cacheWriteFailed = TRUE,
                                      !.end = "cache_write_failed"], FALSE)
  /\ UNCHANGED << sideVars, now, dbSessions, presented, videoDataCache,
                  maxParallel, maxQueued, disk >>

\* try { fs.stat(filepath); cacheService.set({...}) } catch { log }
CacheSet(r, ok) ==
  /\ req[r].pc = "cacheSet"
  /\ cacheEntries' =
       IF ok /\ FilePath(req[r]) \in disk
       THEN CacheSetEntry(Fingerprint(req[r]), req[r].fileId)
       ELSE cacheEntries
  /\ req' = [req EXCEPT ![r] =
               [@ EXCEPT !.pc = "deliver",
                         !.wrote = ok /\ FilePath(req[r]) \in disk,
                         !.cacheWriteFailed =
                            ~ (ok /\ FilePath(req[r]) \in disk)]]
  /\ UNCHANGED << sideVars, now, dbSessions, presented, videoDataCache,
                  activeDownloads, maxParallel, maxQueued, running, waiting,
                  disk >>

\* ctx.replyWithAudio / replyWithVideo(uploadResult.fileId); on success the
\* progress message is deleted, the file unlinked and the statistics bumped;
\* on a throw the catch block reports the error and nothing is unlinked.
Deliver(r, ok) ==
  /\ req[r].pc = "deliver"
  /\ IF ok
     THEN /\ disk' = disk \ {FilePath(req[r])}
          /\ Finish(r, [req[r] EXCEPT !.reply = "media", !.end = "delivered",
                                      !.delivAttempts = @ + 1,
                                      !.deliveries = @ + 1], TRUE)
     ELSE /\ UNCHANGED disk
          /\ Finish(r, [req[r] EXCEPT !.reply = "error",
                                      !.delivAttempts = @ + 1,
                                      !.end = "delivery_failed"], FALSE)
  /\ UNCHANGED << sideVars, now, dbSessions, presented, videoDataCache, cacheEntries,
                  maxParallel, maxQueued >>

\* One format stands for all where the choice does not matter.
AnyFormat == CHOOSE f \in Formats : f.resolution = "audio"

\* The r-th callback of a queue run asks for the r-th candidate of the ladder.
FormatOf(r) == Ladder[((r - 1) % Len(Ladder)) + 1]

\* End-to-end runs of a few callbacks, every outcome of every external call.
Next ==
  \/ HU_Spawn("s1")
  \/ \E v \in Videos : HandleUrl("s1", v)
  \/ \E r \in PipeReqs, f \in Formats : QS_Start(r, "s1", f)
  \/ \E r \in Reqs : CacheGet(r)
  \/ \E r \in Reqs : AfterCache(r)
  \/ \E r \in Reqs, ok \in BOOLEAN : HitDeliver(r, ok)
  \/ \E r \in Reqs, ok \in BOOLEAN : HitRecord(r, ok)
  \/ \E r \in Reqs, ok \in BOOLEAN : HitBook(r, ok)
  \/ \E r \in Reqs : Enqueue(r)
  \/ \E r \in Reqs : PD_Spawn(r)
  \/ \E r \in Reqs, ok \in BOOLEAN : FetchClose(r, ok)
  \/ \E r \in Reqs, ok \in BOOLEAN : Upload(r, ok)
  \/ \E r \in Reqs, ok \in BOOLEAN : CacheSet(r, ok)
  \/ \E r \in Reqs, ok \in BOOLEAN : Deliver(r, ok)

Spec == Init /\ [][Next]_vars

\* Two links in one chat: the session "s0" was saved for another video
\* than the one "s1" is about to present; its title is or is not the one
\* of "v1".  A queue that holds no waiting task, every outcome of every call.
OtherVideos == {"v2", "v3"}

InitPaths ==
  \E mp \in 1..MaxParallelCfg, v \in OtherVideos :
    InitWith(mp, 0,
             [s \in {"s0"} |-> [video |-> v, expiresAt |-> SessionTtlDays]])

NextPaths ==
  \/ HU_Spawn("s1")
  \/ \E v \in Videos : HandleUrl("s1", v)
  \/ \E r \in PipeReqs, sid \in SIDs : QS_Start(r, sid, Ladder[1])
  \/ \E r \in Reqs : SessGet(r)
  \/ \E r \in Reqs : CacheGet(r)
  \/ \E r \in Reqs : AfterCache(r)
  \/ \E r \in Reqs, ok \in BOOLEAN : HitDeliver(r, ok)
  \/ \E r \in Reqs, ok \in BOOLEAN : HitRecord(r, ok)
  \/ \E r \in Reqs, ok \in BOOLEAN : HitBook(r, ok)
  \/ \E r \in Reqs : Enqueue(r)
  \/ \E r \in Reqs : PD_Spawn(r)
  \/ \E r \in Reqs, ok \in BOOLEAN : FetchClose(r, ok)
  \/ \E r \in Reqs, ok \in BOOLEAN : Upload(r, ok)
  \/ \E r \in Reqs, ok \in BOOLEAN : CacheSet(r, ok)
  \/ \E r \in Reqs, ok \in BOOLEAN : Deliver(r, ok)

PathSpec == InitPaths /\ [][NextPaths]_vars

\* Runs that load the Admission Queue: more callbacks, each for its own
\* candidate, under every queue configuration; the Result Cache store is
\* down, so every callback reaches the queue.
NextQueue ==
  \/ HU_Spawn("s1")
  \/ \E v \in Videos : HandleUrl("s1", v)
  \/ \E r \in QueueReqs : QS_Start(r, "s1", FormatOf(r))
  \/ \E r \in Reqs : CacheGet(r)
  \/ \E r \in Reqs : AfterCache(r)
  \/ \E r \in Reqs : Enqueue(r)
  \/ \E r \in Reqs : PD_Spawn(r)
  \/ \E r \in Reqs, ok \in BOOLEAN : FetchClose(r, ok)
  \/ \E r \in Reqs, ok \in BOOLEAN : Upload(r, ok)
  \/ \E r \in Reqs : CacheSet(r, FALSE)
  \/ \E r \in Reqs, ok \in BOOLEAN : Deliver(r, ok)

QueueSpec == InitQueue /\ [][NextQueue]_vars

\* The session lookups of a restarted process while days pass.
NextSession ==
  \/ Tick
  \/ HU_Spawn("s1")
  \/ \E v \in Videos : HandleUrl("s1", v)
  \/ \E r \in PipeReqs, sid \in SIDs : QS_Start(r, sid, AnyFormat)
  \/ \E r \in Reqs : SessGet(r)
  \/ \E r \in Reqs : SessDelete(r)

SessionSpec == InitRestarted /\ [][NextSession]_vars

\* The session table under every operation of VideoSessionService, called in
\* any order while days pass and a restarted process answers a callback for
\* the session the earlier run saved.  A save of "s0" carries the metadata
\* of another video than the row it meets.
StoreReqs == {1}
SavedVideo(sid) == IF sid = "s0" THEN "v2" ELSE "v1"

NextStore ==
  \/ Tick
  \/ \E sid \in SIDs : SessionSave(sid, SavedVideo(sid))
  \/ \E sid \in SIDs : SessionDelete(sid)
  \/ CleanExpired
  \/ \E r \in StoreReqs : QS_Start(r, "s0", AnyFormat)
  \/ \E r \in Reqs : SessGet(r)
  \/ \E r \in Reqs : SessDelete(r)

StoreSpec == InitRestarted /\ [][NextStore]_vars

\* The steps of a task the queue has started.  Whichever call fails, the
\* task settles through the same catch block, so the runs that are checked
\* for progress let the download fail and every later call succeed.
TaskStep(r) ==
  \/ PD_Spawn(r)
  \/ \E ok \in BOOLEAN : FetchClose(r, ok)
  \/ Upload(r, TRUE)
  \/ CacheSet(r, FALSE)
  \/ Deliver(r, TRUE)

NextFair ==
  \/ HU_Spawn("s1")
  \/ \E v \in Videos : HandleUrl("s1", v)
  \/ \E r \in QueueReqs : QS_Start(r, "s1", FormatOf(r))
  \/ \E r \in Reqs : CacheGet(r)
  \/ \E r \in Reqs : AfterCache(r)
  \/ \E r \in Reqs : Enqueue(r)
  \/ \E r \in Reqs : TaskStep(r)

\* A started task keeps going until its promise settles: yt-dlp exits and
\* Telegram answers.
FairQueueSpec ==
  InitQueue /\ [][NextFair]_vars /\ WF_vars(\E r \in Reqs : TaskStep(r))

\* ------------------------------------------- downloadVideo: progress parsing
\* yt-dlp prints percentages with one decimal; they are counted in tenths.
PerCent == 10

\* The stdout chunks one download reads before yt-dlp exits.
MaxChunks == 3

\* text.match(/(\d+\.?\d*)%/) found nothing in the chunk.
NoPercent == -1

\* parseFloat(percentMatch[1]) of the chunks yt-dlp may print, in any order
\* (a merged download prints one run of percentages per stream):
\* 0.0, 2.0, 4.9, 5.0, 5.1, 10.0, 98.9, 99.0, 100.0.
Percents == {0, 20, 49, 50, 51, 100, 989, 990, 1000}

\* Faulty variant, kept to show the property below can fail: every
\* percentage that is not below the last one is reported.
ShouldReport_Unthrottled(percent, last) == percent >= last

\* !isNaN(percent) && (percent - lastProgress >= 5 || percent >= 99)
ShouldReport(percent, last) ==
  percent - last >= 5 * PerCent \/ percent >= 99 * PerCent

\* child.stdout.on('data', chunk): onProgress(percent) and
\* lastProgress = percent when the chunk's percentage passes the test.
OnStdout(percent) ==
  /\ Len(progress.log) < MaxChunks
  /\ LET called == /\ percent # NoPercent
                   /\ ShouldReport(percent, progress.lastProgress)
     IN  progress' =
           [lastProgress |-> IF called THEN percent
                             ELSE progress.lastProgress,
            log |-> Append(progress.log,
                           [percent |-> percent, called |-> called])]
  /\ UNCHANGED << now, dbSessions, presented, videoDataCache, cacheEntries,
                  activeDownloads, maxParallel, maxQueued, running, waiting,
                  disk, req, infoProcs, rawFormats, ladder, lastSave, swept,
                  lastDelete, keyboard >>

NextProgress ==
  \/ OnStdout(NoPercent)
  \/ \E percent \in Percents : OnStdout(percent)

ProgressSpec == InitWith(1, 0, << >>) /\ [][NextProgress]_vars

\* Links keep arriving while downloads run: every handleUrl call and every
\* download, with a queue that holds no waiting task.
NextFetcher ==
  \/ \E sid \in SIDs : HU_Spawn(sid)
  \/ \E sid \in SIDs : HU_Fail(sid)
  \/ \E sid \in SIDs, v \in Videos : HandleUrl(sid, v)
  \/ \E r \in PipeReqs : QS_Start(r, "s1", FormatOf(r))
  \/ \E r \in Reqs : CacheGet(r)
  \/ \E r \in Reqs : AfterCache(r)
  \/ \E r \in Reqs : Enqueue(r)
  \/ \E r \in Reqs : TaskStep(r)

FetcherSpec == Init /\ [][NextFetcher]_vars

\* Callbacks for artifacts that earlier runs cached: the Result Cache holds
\* a row for each of two candidates, hit h times so far, and every call of
\* the cache-hit block succeeds.
HitFormats == { Ladder[1], Ladder[2] }

InitHits ==
  /\ InitBase(1, 0, << >>)
  /\ rawFormats = << >>
  /\ \E h \in 0..1 :
       cacheEntries =
         { [fp |-> << "v1", f.formatId, f.resolution >>, fileId |-> << 0 >>,
            hitCount |-> h, base |-> h] : f \in HitFormats }

NextHits ==
  \/ HU_Spawn("s1")
  \/ \E v \in Videos : HandleUrl("s1", v)
  \/ \E r \in PipeReqs, f \in HitFormats : QS_Start(r, "s1", f)
  \/ \E r \in Reqs : CacheGet(r)
  \/ \E r \in Reqs : AfterCache(r)
  \/ \E r \in Reqs : HitDeliver(r, TRUE)
  \/ \E r \in Reqs : HitRecord(r, TRUE)
  \/ \E r \in Reqs : HitBook(r, TRUE)

HitSpec == InitHits /\ [][NextHits]_vars

\* ------------------------------------------------------------- properties
TaskPcs == {"pdStart", "fetching", "uploading", "cacheSet", "deliver"}

\* The callbacks whose processDownload is executing.
RunningTasks == { r \in Reqs : req[r].pc \in TaskPcs }

FailedEnds == {"fetch_failed", "upload_failed", "delivery_failed"}

\* C1: at no instant are two yt-dlp downloads for the same dedup key
\* (videoData.id, formatId) in flight.
C1_OneFetchPerKey ==
  \A a, b \in Reqs :
    (a # b /\ req[a].pc = "fetching" /\ req[b].pc = "fetching")
      => DownloadKey(req[a]) # DownloadKey(req[b])

\* C2: the tasks the queue runs are exactly the executing processDownload
\* calls, and there are never more than maxParallel of them.
C2_RunningBounded ==
  /\ running = RunningTasks
  /\ Cardinality(RunningTasks) <= maxParallel

C2_Witness ==
  /\ Cardinality(RunningTasks) = maxParallel
  /\ maxParallel = MaxParallelCfg
  /\ waiting # << >>

\* C3: the waiting list never holds more than maxQueued tasks, and an add made
\* while every slot is taken and the waiting list is full is rejected in that
\* very step, leaving the running set and the waiting list as they were.
C3_WaitingBoundedRejectAtOnce ==
  [][ /\ Len(waiting') <= maxQueued'
      /\ \A r \in Reqs :
           ( /\ req[r].pc = "ansQueued"
             /\ req'[r].pc # "ansQueued"
             /\ Cardinality(running) >= maxParallel
             /\ Len(waiting) >= maxQueued )
           => ( /\ req'[r].pc = "done"
                /\ req'[r].end = "rejected"
                /\ running' = running
                /\ waiting' = waiting ) ]_vars

C3_Witness ==
  /\ maxQueued = 0
  /\ maxParallel = 1
  /\ \E r, x \in Reqs :
       /\ req[r].end = "rejected"
       /\ running = {x}
       /\ req[x].pc \in TaskPcs

\* C4: of two tasks that entered the waiting list, the one that entered first
\* is admitted first.
C4_Fifo ==
  \A a, b \in Reqs :
    ( /\ req[a].waitNo > 0
      /\ req[a].waitNo < req[b].waitNo
      /\ req[b].admitNo > 0 )
    => ( /\ req[a].admitNo > 0
         /\ req[a].admitNo < req[b].admitNo )

C4_Witness ==
  \E a, b \in Reqs :
    /\ req[a].waitNo = 1 /\ req[b].waitNo = 2
    /\ req[a].admitNo = 1 /\ req[b].admitNo = 2

\* C5: a settled task, resolved or rejected, holds no slot; tasks wait only
\* while every slot is taken; and every waiting task is eventually started.
C5_SlotFreedHeadAdmitted ==
  /\ [](/\ running = RunningTasks
        /\ waiting # << >> => Cardinality(running) = maxParallel
        /\ \A i \in DOMAIN waiting : req[waiting[i]].pc = "waiting")
  /\ \A r \in Reqs : (req[r].pc = "waiting") ~> (req[r].pc \in TaskPcs)

C5_Witness ==
  /\ maxParallel = 1
  /\ \E r, x \in Reqs :
       /\ req[r].admitNo = 1
       /\ req[r].pc = "pdStart"
       /\ req[x].end \in FailedEnds
       /\ \A y \in Reqs : req[y].pc = "done" => req[y].end \in FailedEnds

\* The positions of a callback that has gone past the cache-hit block.
QueuePcs == {"ansQueued", "waiting"} \cup TaskPcs

PastCacheCheck(q) ==
  /\ q.pc \notin {"idle", "sessFind", "sessDelete", "cacheGet"}
  /\ q.end # "expired"

\* C6 (as claimed): a callback whose fingerprint was already delivered to some
\* requester is served from the Result Cache and never reaches yt-dlp.
C6_ServedFromCache ==
  \A r \in Reqs :
    req[r].priorDelivered
      => ( /\ req[r].fetches = 0
           /\ req[r].pc \notin QueuePcs
           /\ req[r].pc = "done" => req[r].end = "cache_delivered" )

\* C6 (amended): when the fingerprint was delivered before and its CacheEntry
\* was persisted, the cache check hits, and the callback goes on to the queue
\* only after an error was raised inside the cache-hit block.
C6_HitUnlessHitBlockThrows ==
  \A r \in Reqs :
    (req[r].priorDelivered /\ req[r].priorCached)
      => ( /\ PastCacheCheck(req[r]) => req[r].cached # NoFile
           /\ ( \/ req[r].fetches > 0
                \/ req[r].pc \in QueuePcs
                \/ req[r].end \notin {None, "expired", "cache_delivered"} )
              => req[r].hitError )

C6_Witness ==
  \E r \in Reqs :
    /\ req[r].priorDelivered /\ req[r].priorCached
    /\ req[r].pc = "done" /\ req[r].end = "cache_delivered"
    /\ req[r].fetches = 0

\* C7: no lookup made after expiresAt hands the session's metadata to the
\* handler, and a lookup that ends in 'link expired' leaves no row behind.
C7_ExpiredNeverReturned ==
  \A r \in Reqs :
    /\ ~ req[r].gotExpired
    /\ req[r].end = "expired" => req[r].sid \notin DOMAIN dbSessions

\* C8: once a task that spawned yt-dlp has finished, its local file is gone.
C8_ArtifactDeleted ==
  \A r \in Reqs :
    (req[r].pc = "done" /\ req[r].fetches > 0)
      => FilePath(req[r]) \notin disk

\* C9: a callback the queue rejected for capacity was told 'queue full'.
C9_RejectionReported ==
  \A r \in Reqs : req[r].end = "rejected" => req[r].reply = "queue_full"

\* C10: once the artifact was delivered from the cached reference, the
\* callback only does its bookkeeping and ends as delivered from the cache.
C10_HitDeliveredStaysDelivered ==
  \A r \in Reqs :
    req[r].hitDelivered
      => ( /\ req[r].pc \in {"hitRecord", "hitBook", "done"}
           /\ req[r].pc = "done" => req[r].end = "cache_delivered"
           /\ req[r].fetches = 0
           /\ req[r].deliveries = 1 )

C12_HitRecordedOnce ==
  \A r \in Reqs :
    req[r].hitDelivered
      => ( /\ req[r].pc \notin QueuePcs
           /\ req[r].waitNo = 0 /\ req[r].admitNo = 0
           /\ req[r].pc = "done"
                => ( /\ req[r].end = "cache_delivered"
                     /\ req[r].hits = 1
                     /\ req[r].fetches = 0 ) )

\* C13 (as claimed): a task whose cache write failed ends as delivered.
C13_CacheWriteFailureDelivered ==
  \A r \in Reqs :
    (req[r].cacheWriteFailed /\ req[r].pc = "done")
      => req[r].end = "delivered"

\* C13 (amended): a failed cache write shows the user nothing and leaves the
\* task at the delivery from the archive reference; the task then ends as
\* delivered unless that delivery call itself fails.
C13_CacheWriteFailureNotFatal ==
  \A r \in Reqs :
    req[r].cacheWriteFailed
      => ( /\ req[r].pc \in {"deliver", "done"}
           /\ req[r].fileId = << r >>
           /\ req[r].pc = "deliver" => req[r].reply = "uploading"
           /\ req[r].pc = "done"
                => req[r].end \in {"delivered", "delivery_failed"}
           /\ req[r].end = "delivered" => req[r].reply = "media" )

C13_Witness ==
  \E r \in Reqs :
    /\ req[r].cacheWriteFailed
    /\ req[r].pc = "done" /\ req[r].end = "delivered"
    /\ Fingerprint(req[r]) \notin CachedFps

\* yt-dlp subprocesses alive: metadata dumps and downloads.
FetcherProcs ==
  Cardinality(infoProcs) + Cardinality({ r \in Reqs : req[r].pc = "fetching" })

\* C14: every download runs in a task the queue admitted, and dumps and
\* downloads together never number more than maxParallel.
C14_FetcherGated ==
  /\ \A r \in Reqs : req[r].pc = "fetching" => r \in running
  /\ FetcherProcs <= maxParallel

\* The video entries of a resolved ladder.
LadderVideos == { i \in DOMAIN ladder : ladder[i].resolution # AudioRes }
LadderAudios == { i \in DOMAIN ladder : ladder[i].resolution = AudioRes }

\* The input is two video records of one height.
TwoVideosOneHeight ==
  /\ ladder # NotResolved
  /\ Len(rawFormats) = 2
  /\ HasVideo(rawFormats[1]) /\ HasVideo(rawFormats[2])
  /\ rawFormats[1].height = rawFormats[2].height

\* The one video entry of the ladder is the i-th input record.
Retained(i) ==
  /\ Cardinality(LadderVideos) = 1
  /\ \A k \in LadderVideos : ladder[k].formatId = rawFormats[i].format_id

\* C15: of two video records of one height (>= 144) with sizes 1000 and 2000,
\* whatever their codecs and order, the 2000 one is retained.
C15_LargerSizeRetained ==
  \A i \in {1, 2} :
    ( /\ TwoVideosOneHeight
      /\ rawFormats[1].height >= 144
      /\ rawFormats[i].filesize = 2000
      /\ rawFormats[3 - i].filesize = 1000 )
    => Retained(i)

\* C16 (as claimed): of two video records of one height, both of size 1000,
\* one H.264 and one not, the H.264 one is retained.
C16_H264Retained ==
  \A i \in {1, 2} :
    ( /\ TwoVideosOneHeight
      /\ rawFormats[1].filesize = 1000 /\ rawFormats[2].filesize = 1000
      /\ IsH264(rawFormats[i]) /\ ~ IsH264(rawFormats[3 - i]) )
    => Retained(i)

\* C16 (amended): the same for a height of at least 144.
C16_H264RetainedAboveThreshold ==
  \A i \in {1, 2} :
    ( /\ TwoVideosOneHeight
      /\ rawFormats[1].height >= 144
      /\ rawFormats[1].filesize = 1000 /\ rawFormats[2].filesize = 1000
      /\ IsH264(rawFormats[i]) /\ ~ IsH264(rawFormats[3 - i]) )
    => Retained(i)

C16_Witness ==
  /\ TwoVideosOneHeight
  /\ rawFormats[1].height = 720
  /\ rawFormats[1].filesize = 1000 /\ rawFormats[2].filesize = 1000
  /\ ~ IsH264(rawFormats[1]) /\ IsH264(rawFormats[2])
  /\ Retained(2)

\* C17: a resolved ladder has one video entry per height, none below 144,
\* the video entries first and in strictly descending height, and at most one
\* audio entry, in the last place.
C17_LadderShape ==
  ladder # NotResolved =>
    /\ \A i, k \in LadderVideos : i < k => ladder[i].quality > ladder[k].quality
    /\ \A i \in LadderVideos : ladder[i].quality >= 144
    /\ Cardinality(LadderAudios) <= 1
    /\ \A i \in LadderAudios : i = Len(ladder)

C17_Witness ==
  /\ ladder # NotResolved
  /\ Len(rawFormats) = 2 /\ Len(ladder) = 2
  /\ rawFormats[1].height = 144 /\ rawFormats[2].height = 720
  /\ ladder[1].quality = 720 /\ ladder[2].quality = 144

\* C18: a save call never raises, whether or not the table holds the id, and
\* leaves the row of the id with the metadata of the call and an expiry
\* SessionTtlDays from now.
C18_SaveOverwrites ==
  [][ lastSave'.seq # lastSave.seq =>
        /\ ~ lastSave'.threw
        /\ lastSave'.sid \in DOMAIN dbSessions'
        /\ dbSessions'[lastSave'.sid] =
             [video |-> lastSave'.video,
              expiresAt |-> now + SessionTtlDays] ]_vars

\* C19: a callback whose session is in the table and not expired gets the
\* metadata from the table, and the metadata is then in videoDataCache; a
\* callback that finds its session in videoDataCache does not read the
\* table; and videoDataCache loses no entry.
C19_StoreFallbackRepopulates ==
  [][ /\ \A r \in Reqs :
           /\ ( /\ req[r].pc = "sessFind"
                /\ req'[r].pc # "sessFind"
                /\ req[r].sid \in DOMAIN dbSessions
                /\ now <= dbSessions[req[r].sid].expiresAt )
              => ( /\ req'[r].pc = "cacheGet"
                   /\ req'[r].video = dbSessions[req[r].sid].video
                   /\ req[r].sid \in DOMAIN videoDataCache'
                   /\ videoDataCache'[req[r].sid] = req'[r].video )
           /\ ( /\ req[r].pc = "idle"
                /\ req'[r].pc # "idle"
                /\ req'[r].sid \in DOMAIN videoDataCache )
              => ( /\ req'[r].pc = "cacheGet"
                   /\ ~ req'[r].viaStore
                   /\ req'[r].video = videoDataCache[req'[r].sid] )
      /\ DOMAIN videoDataCache \subseteq DOMAIN videoDataCache' ]_vars

C19_Witness ==
  \E a, b \in Reqs :
    /\ req[a].sid = "s0" /\ req[a].viaStore
    /\ req[b].sid = "s0" /\ ~ req[b].viaStore
    /\ req[b].pc = "cacheGet" /\ req[b].video = "v1"

\* C20: a cleanExpired call removes the rows with expiresAt < now and no
\* other, leaves every remaining row as it was, and returns the number of
\* rows it removed.
C20_SweepExact ==
  [][ swept' # swept =>
        /\ DOMAIN dbSessions' =
             { s \in DOMAIN dbSessions : ~ (dbSessions[s].expiresAt < now) }
        /\ \A s \in DOMAIN dbSessions' : dbSessions'[s] = dbSessions[s]
        /\ swept'.count =
             Cardinality(DOMAIN dbSessions) - Cardinality(DOMAIN dbSessions')
    ]_vars

C20_Witness ==
  /\ swept.count = 1
  /\ "s0" \notin DOMAIN dbSessions
  /\ "s1" \in DOMAIN dbSessions
  /\ dbSessions["s1"].expiresAt = now
  /\ \E r \in Reqs : req[r].pc = "sessDelete"

\* C21: no delete call raises; in every state of the table, a delete of an id
\* it does not hold changes nothing, and a second delete of an id changes
\* nothing after the first.
C21_DeleteIdempotent ==
  /\ ~ lastDelete.threw
  /\ \A sid \in SIDs :
       LET once == DeleteRow(dbSessions, sid)
           twice == DeleteRow(once.rows, sid)
       IN  /\ ~ once.threw /\ ~ twice.threw
           /\ twice.rows = once.rows
           /\ sid \notin DOMAIN once.rows
           /\ sid \notin DOMAIN dbSessions => once.rows = dbSessions

\* get's delete of an expired row finds the row already swept.
C21_Witness ==
  /\ lastDelete.sid = "s0" /\ lastDelete.absent
  /\ swept.count = 1
  /\ \E r \in Reqs : req[r].pc = "done" /\ req[r].end = "expired"
  /\ "s1" \in DOMAIN dbSessions

\* C22: no two rows of the Result Cache carry the same fingerprint.
C22_OneEntryPerFingerprint ==
  \A e1, e2 \in cacheEntries : e1.fp = e2.fp => e1 = e2

\* Two tasks wrote the entry of one fingerprint, the second after the cached
\* reference of the first was rejected.
C22_Witness ==
  \E a, b \in Reqs :
    /\ a # b
    /\ req[a].wrote /\ req[b].wrote
    /\ Fingerprint(req[a]) = Fingerprint(req[b])
    /\ req[b].hitError
    /\ EntriesOf(Fingerprint(req[b])) # {}
    /\ \A e \in EntriesOf(Fingerprint(req[b])) : e.fileId = << b >>

\* The recordCacheHit calls made so far for a fingerprint, one per callback.
HitsRecorded(fp) ==
  Cardinality({ r \in Reqs : req[r].hits > 0 /\ Fingerprint(req[r]) = fp })

\* C23: the hit count of every entry is its initial value plus the number of
\* recordCacheHit calls made for it.
C23_HitCountMonotonic ==
  \A e \in cacheEntries :
    /\ e.hitCount = e.base + HitsRecorded(e.fp)
    /\ \A r \in Reqs : req[r].hits <= 1

C23_Witness ==
  /\ \E e \in cacheEntries : e.base = 1 /\ e.hitCount = 3
  /\ \A r \in PipeReqs : req[r].pc = "done" /\ req[r].hits = 1

\* What handleQualitySelection decides for a callback with record q in the
\* current state: the keys it uses, the cached row it finds, and where the
\* dedup test sends it.
BranchOf(q) ==
  [fp |-> Fingerprint(q), key |-> DownloadKey(q), hit |-> CacheLookup(q),
   dedup |-> DedupCheck(q).pc]

\* C24: in every state, a callback issued by any other user would use the
\* same cache and dedup keys, find the same cached row and be sent the same
\* way by the dedup test.
C24_RequesterIndependent ==
  \A r \in Reqs, u \in Users :
    req[r].pc # "idle"
      => BranchOf([req[r] EXCEPT !.user = u]) = BranchOf(req[r])

\* One user's callback is served from the entry another user's task wrote,
\* and a third party's would be stopped by the same marker.
C24_Witness ==
  \E a, b \in Reqs :
    /\ req[a].user # req[b].user
    /\ Fingerprint(req[a]) = Fingerprint(req[b])
    /\ req[a].wrote
    /\ req[b].pc = "done" /\ req[b].end = "cache_delivered"

\* C25: a resolved ladder has exactly one video entry for every height of at
\* least 144 at which the input has a video record.
C25_EveryHeightKept ==
  ladder # NotResolved =>
    \A h \in Heights :
      ( /\ h >= 144
        /\ \E i \in DOMAIN rawFormats :
             HasVideo(rawFormats[i]) /\ rawFormats[i].height = h )
      => Cardinality({ k \in LadderVideos : ladder[k].quality = h }) = 1

\* C26: the buttons sent are the entries of the ladder, in its order, and the
\* 'too low or absent' answer is given only for an empty ladder.
C26_LadderOffered ==
  keyboard # NotPresented =>
    /\ keyboard.tooLow <=> ladder = << >>
    /\ ~ keyboard.tooLow =>
         keyboard.offered = [i \in DOMAIN ladder |-> ButtonOf(ladder[i])]

\* C27: every row of the Result Cache carries the file id of a task whose
\* download and upload succeeded; a task whose download or upload failed
\* wrote no row, has ended, and ran yt-dlp once.
C27_EntryOnlyAfterFetchAndArchive ==
  /\ \A e \in cacheEntries :
       \E r \in Reqs :
         /\ req[r].wrote
         /\ req[r].fileId = e.fileId
         /\ Fingerprint(req[r]) = e.fp
  /\ \A r \in Reqs :
       /\ req[r].wrote => (req[r].fileId = << r >> /\ req[r].fetches = 1)
       /\ req[r].end \in {"fetch_failed", "upload_failed"}
            => ( /\ ~ req[r].wrote
                 /\ req[r].pc = "done"
                 /\ req[r].fetches = 1
                 /\ \A e \in cacheEntries : e.fileId # << r >> )

C27_Witness ==
  \E a, b \in Reqs :
    /\ req[a].end = "fetch_failed"
    /\ req[b].end = "upload_failed"
    /\ Fingerprint(req[a]) = Fingerprint(req[b])
    /\ cacheEntries = {}

\* C28: a task whose upload to the archive failed told the user of the error
\* and tried to deliver the local file to the user.
C28_DirectDeliveryAfterArchiveFailure ==
  \A r \in Reqs :
    (req[r].pc = "done" /\ req[r].end = "upload_failed")
      => (req[r].reply = "error" /\ req[r].delivAttempts >= 1)

\* Every value downloadKey can take.
DownloadKeys == { << v, f.formatId >> : v \in Videos, f \in Formats }

\* The callbacks whose promise is in the queue or running.
KeyOwners == { r \in Reqs : req[r].pc \in {"waiting"} \cup TaskPcs }

\* C29: a dedup key is in the map only while a submission that set it is
\* waiting or running; a rejected submission whose key is not in the map
\* leaves the map as it was; and every key in the map is eventually removed.
C29_MarkerEventuallyRemoved ==
  /\ [](activeDownloads \subseteq { DownloadKey(req[r]) : r \in KeyOwners })
  /\ [][\A r \in Reqs :
          ( /\ req[r].pc = "ansQueued"
            /\ req'[r].end = "rejected"
            /\ DownloadKey(req[r]) \notin activeDownloads )
          => activeDownloads' = activeDownloads]_vars
  /\ \A k \in DownloadKeys :
       (k \in activeDownloads) ~> (k \notin activeDownloads)

C29_Witness ==
  /\ activeDownloads = {}
  /\ \E a, b, c \in Reqs :
       /\ req[a].end = "rejected"
       /\ req[b].end = "delivered"
       /\ req[c].end \in FailedEnds
       /\ req[a].pc = "done" /\ req[b].pc = "done" /\ req[c].pc = "done"

\* The percentage of the latest chunk before chunk i for which onProgress
\* was called; 0 when there is none.
RECURSIVE LastReported(_)
LastReported(i) ==
  IF i = 1 THEN 0
  ELSE IF progress.log[i - 1].called THEN progress.log[i - 1].percent
  ELSE LastReported(i - 1)

\* C30: onProgress is called for a chunk only if the chunk carries a
\* percentage that is 5 points or more above the last reported one, or is
\* 99 or more.
C30_ProgressThrottled ==
  \A i \in DOMAIN progress.log :
    progress.log[i].called =>
      /\ progress.log[i].percent # NoPercent
      /\ \/ progress.log[i].percent - LastReported(i) >= 50
         \/ progress.log[i].percent >= 990

C30_Witness ==
  /\ Len(progress.log) = 3
  /\ progress.log[1].called /\ progress.log[1].percent = 989
  /\ progress.log[2].called /\ progress.log[2].percent = 990
  /\ ~ progress.log[3].called /\ progress.log[3].percent = 20

\* The callbacks whose processDownload has computed its filepath and has
\* not settled.
InFlight == { r \in Reqs : req[r].pc \in {"fetching", "uploading",
                                           "cacheSet", "deliver"} }

\* C31: two downloads in flight at the same time that have different dedup
\* keys write to different files.
C31_DistinctPaths ==
  \A a, b \in InFlight :
    DownloadKey(req[a]) # DownloadKey(req[b])
      => FilePath(req[a]) # FilePath(req[b])

\* data.formats in another order: the i-th record is formats[p[i]].
Orders(n) ==
  { p \in [1..n -> 1..n] : \A i, j \in 1..n : i # j => p[i] # p[j] }

Permuted(formats, p) == [i \in DOMAIN formats |-> formats[p[i]]]

\* What a ladder retains: per height the size and codec of its candidate,
\* and the size of its audio entry.
RetainedView(out) ==
  [video |-> { << out[i].quality, out[i].filesize, out[i].vcodec >> :
                 i \in { k \in DOMAIN out : out[k].resolution # AudioRes } },
   audio |-> { out[i].filesize :
                 i \in { k \in DOMAIN out : out[k].resolution = AudioRes } }]

\* C32: getBestFormats retains the same candidate for each height and the
\* same audio size whatever the order of the records it is given.
C32_OrderIndependent ==
  ladder # NotResolved =>
    \A p \in Orders(Len(rawFormats)) :
      RetainedView(GetBestFormats(Permuted(rawFormats, p)))
        = RetainedView(ladder)
====
